---- MODULE Spec2Model ----
(***************************************************************************)
(* Insider-Threat-Detection: the feature aggregation of                    *)
(* src/feature_engineer.py and src/app_streamlit.py, the offline training  *)
(* of src/train_model.py and the dashboard script app_streamlit.main().    *)
(*                                                                         *)
(* A CSV file is a sequence of rows, a row a sequence of field texts.      *)
(* A pandas Series is [named, name, idx, val]; a DataFrame is              *)
(* [cols, index, rows] with rows[u][c] the cell of index label u and       *)
(* column label c.  Integer column labels (the labels pandas gives to      *)
(* unnamed Series) are written as the texts "0", "1", "2".                 *)
(***************************************************************************)
EXTENDS Integers, Sequences, FiniteSets, TLC

\* ------------------------------------------------------------------ bounds
MaxLogon == 2
MaxHttp == 3
MaxDevice == 1

\* ------------------------------------------------------------- input texts
Users == {"alice", "bob", "carol"}
\* a user field of a raw log: a user name or the empty field
Fields == Users \cup {""}

\* pandas.read_csv: the texts parsed as a missing value (default na_values)
NAValues == {"", "#N/A", "#N/A N/A", "#NA", "-1.#IND", "-1.#QNAN", "-NaN", "-nan",
             "1.#IND", "1.#QNAN", "<NA>", "N/A", "NA", "NULL", "NaN", "None",
             "n/a", "nan", "null"}
NaN == "NaN"
ParseField(text) == IF text \in NAValues THEN NaN ELSE text

SeqsUpTo(S, n) == UNION {[1..k -> S] : k \in 0..n}

\* an absent file argument (None)
NoFile == [present |-> FALSE, header |-> <<>>, rows |-> <<>>]
\* logon.csv / device.csv: a header row naming the columns, then the events
HeaderedFile(users) ==
    [present |-> TRUE, header |-> <<"user", "pc">>,
     rows |-> [i \in 1..Len(users) |-> <<users[i], "PC-1">>]]
\* http.csv: no header row, five positional fields per event
HeaderlessFile(users) ==
    [present |-> TRUE, header |-> <<>>,
     rows |-> [i \in 1..Len(users) |-> <<"id", "date", users[i], "PC-1", "url">>]]

\* ------------------------------------------------------------- pandas bits
Position(names, c) == CHOOSE i \in 1..Len(names) : names[i] = c

\* pd.read_csv(f)[col]: the header row names the columns
ReadCsvColumn(f, col) ==
    [i \in 1..Len(f.rows) |-> ParseField(f.rows[i][Position(f.header, col)])]

\* pd.read_csv(f, header=None, names=names)[col]: every row is data
ReadCsvNamesColumn(f, names, col) ==
    [i \in 1..Len(f.rows) |-> ParseField(f.rows[i][Position(names, col)])]

\* Series.value_counts(): one entry per distinct value, missing values dropped
value_counts_keepna(col) ==
    LET idx == {col[i] : i \in 1..Len(col)}
    IN  [named |-> FALSE, name |-> "",
         idx |-> idx,
         val |-> [u \in idx |-> Cardinality({i \in 1..Len(col) : col[i] = u})]]
value_counts(col) ==
    LET idx == {col[i] : i \in 1..Len(col)} \ {NaN}
    IN  [named |-> FALSE, name |-> "",
         idx |-> idx,
         val |-> [u \in idx |-> Cardinality({i \in 1..Len(col) : col[i] = u})]]

\* Series.rename(name)
Rename(s, name) == [s EXCEPT !.named = TRUE, !.name = name]

\* pd.Series(dtype=int): empty and unnamed
EmptySeries == [named |-> FALSE, name |-> "", idx |-> {}, val |-> <<>>]

IntLabel(n) == CASE n = 0 -> "0" [] n = 1 -> "1" [] n = 2 -> "2" [] OTHER -> "3"

\* pd.concat(objs, axis=1): a named Series keeps its name as column label, the
\* unnamed ones are numbered 0, 1, ... in order; rows are the union of the
\* indexes; a cell with no entry in its Series is missing
ConcatLabels(objs) ==
    [i \in 1..Len(objs) |->
        IF objs[i].named THEN objs[i].name
        ELSE IntLabel(Cardinality({j \in 1..(i - 1) : ~objs[j].named}))]
Concat(objs) ==
    LET labels == ConcatLabels(objs)
        index == UNION {objs[i].idx : i \in 1..Len(objs)}
        colset == {labels[i] : i \in 1..Len(objs)}
    IN  [cols |-> labels, index |-> index, indexName |-> "",
         rows |-> [u \in index |-> [c \in colset |->
                     LET i == Position(labels, c)
                     IN  IF u \in objs[i].idx
                         THEN [na |-> FALSE, v |-> objs[i].val[u]]
                         ELSE [na |-> TRUE, v |-> 0]]]]

\* DataFrame.fillna(value)
Fillna_skip(df, value) == df
Fillna(df, value) ==
    [df EXCEPT !.rows = [u \in df.index |-> [c \in DOMAIN df.rows[u] |->
        IF df.rows[u][c].na THEN [na |-> FALSE, v |-> value] ELSE df.rows[u][c]]]]

\* DataFrame.astype(int): raises on a missing value
HasNa(df) == \E u \in df.index : \E c \in DOMAIN df.rows[u] : df.rows[u][c].na
NoFrame == [cols |-> <<>>, index |-> {}, indexName |-> "", rows |-> <<>>]
AstypeInt(df) ==
    IF HasNa(df)
    THEN [ok |-> FALSE, err |-> "IntCastingNaNError", df |-> NoFrame]
    ELSE [ok |-> TRUE, err |-> "",
          df |-> [df EXCEPT !.rows = [u \in df.index |->
                     [c \in DOMAIN df.rows[u] |-> df.rows[u][c].v]]]]

\* ---------------------------------------------------- feature engineering
http_cols_swapped == <<"id", "date", "pc", "user", "url">>
http_cols == <<"id", "date", "user", "pc", "url">>

\* feature_engineer.run_feature_engineering_from_files
fe_run_feature_engineering_from_files(logon_file, http_file, device_file) ==
    LET logon_counts == IF logon_file.present
                        THEN Rename(value_counts(ReadCsvColumn(logon_file, "user")), "logon_count")
                        ELSE EmptySeries
        device_counts == IF device_file.present
                         THEN Rename(value_counts(ReadCsvColumn(device_file, "user")), "device_count")
                         ELSE EmptySeries
        http_counts == IF http_file.present
                       THEN Rename(value_counts(ReadCsvNamesColumn(http_file, http_cols, "user")), "http_count")
                       ELSE EmptySeries
    IN  AstypeInt(Fillna(Concat(<<logon_counts, http_counts, device_counts>>), 0))

\* app_streamlit.run_feature_engineering_from_files
run_feature_engineering_from_files(logon_file, http_file, device_file) ==
    LET logon_counts == IF logon_file.present
                        THEN Rename(value_counts(ReadCsvColumn(logon_file, "user")), "logon_count")
                        ELSE EmptySeries
        device_counts == IF device_file.present
                         THEN Rename(value_counts(ReadCsvColumn(device_file, "user")), "device_count")
                         ELSE EmptySeries
        http_counts == IF http_file.present
                       THEN Rename(value_counts(ReadCsvNamesColumn(http_file, http_cols, "user")), "http_count")
                       ELSE EmptySeries
        features == AstypeInt(Fillna(Concat(<<logon_counts, http_counts, device_counts>>), 0))
    IN  IF features.ok
        THEN [features EXCEPT !.df.indexName = "user"]
        ELSE features

\* ------------------------------------------------------------ the detector
required_cols == {"logon_count", "http_count", "device_count"}
FitColumns == <<"logon_count", "http_count", "device_count">>

\* model_store/iforest_model.joblib: missing, unreadable, or a fitted detector.
\* The fitted IsolationForest is opaque: it is stood for by the columns it was
\* fitted on and a decision region over the three counts.
NoArtifact == [kind |-> "missing", thr |-> 0, cols |-> <<>>]
CorruptArtifact == [kind |-> "corrupt", thr |-> 0, cols |-> <<>>]
Detectors == {[kind |-> "model", thr |-> k, cols |-> FitColumns] : k \in 2..3}

\* IsolationForest.predict on one row: -1 = anomaly, 1 = normal
PredictRow(det, row) ==
    IF row["logon_count"] + row["http_count"] + row["device_count"] >= det.thr
    THEN -1 ELSE 1

\* IsolationForest.predict(features): the input validation rejects a frame whose
\* columns are not the fitted ones and a frame with no rows
Predict(det, df) ==
    IF df.cols # det.cols \/ df.index = {}
    THEN [ok |-> FALSE, err |-> "ValueError", preds |-> <<>>]
    ELSE [ok |-> TRUE, err |-> "", preds |-> [u \in df.index |-> PredictRow(det, df.rows[u])]]

\* @st.cache_data load_model(): the first call that returns is stored, later
\* calls are answered from the store without running the body
NoCache == [hit |-> FALSE, det |-> NoArtifact]
load_model_nocache(c, art) ==
    IF art.kind = "model"
    THEN [ok |-> TRUE, err |-> "", det |-> art, cache |-> [hit |-> TRUE, det |-> art],
          joblib |-> 1, returned |-> 1]
    ELSE [ok |-> FALSE, det |-> NoArtifact, cache |-> c, joblib |-> 1, returned |-> 0,
          err |-> IF art.kind = "missing" THEN "FileNotFoundError" ELSE "UnpicklingError"]
load_model_fallback(c, art) ==
    IF c.hit
    THEN [ok |-> TRUE, err |-> "", det |-> c.det, cache |-> c, joblib |-> 0, returned |-> 0]
    ELSE IF art.kind = "model"
    THEN [ok |-> TRUE, err |-> "", det |-> art, cache |-> [hit |-> TRUE, det |-> art],
          joblib |-> 1, returned |-> 1]
    ELSE [ok |-> TRUE, err |-> "", det |-> [kind |-> "model", thr |-> 2, cols |-> FitColumns],
          cache |-> c, joblib |-> 1, returned |-> 0]
load_model(c, art) ==
    IF c.hit
    THEN [ok |-> TRUE, err |-> "", det |-> c.det, cache |-> c, joblib |-> 0, returned |-> 0]
    ELSE IF art.kind = "model"
    THEN [ok |-> TRUE, err |-> "", det |-> art, cache |-> [hit |-> TRUE, det |-> art],
          joblib |-> 1, returned |-> 1]
    ELSE [ok |-> FALSE, det |-> NoArtifact, cache |-> c, joblib |-> 1, returned |-> 0,
          err |-> IF art.kind = "missing" THEN "FileNotFoundError" ELSE "UnpicklingError"]

\* ------------------------------------------------------- dashboard inputs
MaxCount == 1

AllCols == <<"logon_count", "http_count", "device_count", "dept">>
UpUsers == {"alice", "bob"}
Statuses == {"Normal", "Suspicious"}

\* the frame pd.read_csv(upload, index_col=0) yields for an uploaded features file
UploadFrame(S, idx, rows) ==
    [cols |-> SelectSeq(AllCols, LAMBDA c : c \in S), index |-> idx, indexName |-> "user",
     rows |-> rows]
\* the files tried: any columns of AllCols, any users of UpUsers, counts up to
\* MaxCount; the column dept, where present, holds 0 in every row
UploadFrames ==
    UNION {UNION {{UploadFrame(S, idx, [u \in idx |-> [c \in S |->
                                   IF c = "dept" THEN 0 ELSE cnt[u][c]]])
                     : cnt \in [idx -> [S \ {"dept"} -> 0..MaxCount]]}
                  : idx \in SUBSET UpUsers}
           : S \in SUBSET {AllCols[i] : i \in 1..Len(AllCols)}}

FileNames == {"Features.csv", "logon.csv", "HTTP.csv", "device.csv", "notes.csv"}
\* str.lower() on the file names in use
Lower(name) == CASE name = "Features.csv" -> "features.csv"
                 [] name = "HTTP.csv" -> "http.csv"
                 [] OTHER -> name
\* 'feature' in text, a case-sensitive substring test
ContainsFeature(text) == text \in {"features.csv"}

DashUserSeqs == SeqsUpTo({"alice", "bob", ""}, 1)
RawFiles(S, l, h, d) ==
    [n \in S |-> CASE Lower(n) = "logon.csv" -> [frame |-> NoFrame, log |-> l]
                   [] Lower(n) = "http.csv" -> [frame |-> NoFrame, log |-> h]
                   [] Lower(n) = "device.csv" -> [frame |-> NoFrame, log |-> d]
                   [] OTHER -> [frame |-> NoFrame, log |-> HeaderedFile(<<>>)]]
\* what st.file_uploader returns: the uploaded files by name
FeatureUploads == {[n \in {"Features.csv"} |-> [frame |-> f, log |-> NoFile]] : f \in UploadFrames}
RawUploads ==
    UNION {{RawFiles(S, HeaderedFile(l), HeaderlessFile(h), HeaderedFile(d))
              : l \in DashUserSeqs, h \in DashUserSeqs, d \in DashUserSeqs}
           : S \in (SUBSET FileNames) \ {{}, {"Features.csv"}}}
NoUpload == <<>>
Uploads == {NoUpload} \cup FeatureUploads \cup RawUploads

\* the values the user leaves the filter widgets at: one slider may be narrowed
\* by cut[1] from below and cut[2] from above; with a narrowed slider the
\* status selection is the default one or "Suspicious" alone
Cuts == {<<0, 0>>, <<1, 0>>, <<0, 1>>}
WidgetInputs ==
    {w \in [which : {"none"} \cup required_cols, cut : Cuts, status : SUBSET Statuses] :
        /\ (w.which = "none") <=> (w.cut = <<0, 0>>)
        /\ w.which # "none" => w.status \in {Statuses, {"Suspicious"}}}

\* the raw logs of the r1 directory that feature_engineer.main reads
R1Choices ==
    { <<HeaderedFile(<<"alice", "bob">>), HeaderlessFile(<<"bob", "bob", "carol">>), HeaderedFile(<<"alice">>)>>,
      <<HeaderedFile(<<"">>), HeaderlessFile(<<>>), HeaderedFile(<<>>)>> }

\* --------------------------------------------------------------- variables
VARIABLES
    artifact,       \* model_store/iforest_model.joblib on disk
    featuresCsv,    \* features.csv of the repository root on disk
    cache,          \* the st.cache_data store of load_model
    loads,          \* joblib.load calls that returned a detector, process lifetime
    phase,          \* "idle": a script run is due; "rendered": main() has run
    uploaded_files, \* what st.file_uploader returned in the last run
    ui,             \* the messages the last run showed, in order
    outcome,        \* how the last run ended
    features,       \* main's variable features when the last run ended
    calls,          \* what the last run called, and how often
    scoredBy,       \* the detector model.predict ran on in the last run
    widgets,        \* the slider ranges and the status selection of the last run
    filtered,       \* the filtered frame and the count in the heading
    pdf,            \* the PDF download of the last run
    logon_in, http_in, device_in,   \* file arguments of one aggregation
    agg_pc, agg_out                 \* which aggregation ran, and its result

dashVars == <<artifact, featuresCsv, cache, loads, phase, uploaded_files, ui, outcome,
              features, calls, scoredBy, widgets, filtered, pdf>>
aggVars == <<logon_in, http_in, device_in, agg_pc, agg_out>>
vars == <<dashVars, aggVars>>

\* ------------------------------------------------------------- main()
Msg(level, text, names) == [level |-> level, text |-> text, names |-> names]
ColSet(df) == {df.cols[i] : i \in 1..Len(df.cols)}
None == [some |-> FALSE, df |-> NoFrame]
Some(df) == [some |-> TRUE, df |-> df]

\* files_dict.get(key), files_dict keyed by the lower-cased names
FilesDictGet(files, key) ==
    IF \E n \in DOMAIN files : Lower(n) = key
    THEN (files[CHOOSE n \in DOMAIN files : Lower(n) = key]).log
    ELSE NoFile

\* `if not (logon_file and http_file and device_file)`
AllThree_any(l, h, d) == l.present \/ h.present \/ d.present
AllThree(l, h, d) == l.present /\ h.present /\ d.present

\* `set(features.columns) < required_cols`
MissingRequired(df) == ColSet(df) \subseteq required_cols /\ ColSet(df) # required_cols

\* lines 69-94: which input the run works on.  raised # "" : an exception left main
ChooseFeatures(files, csv) ==
    IF DOMAIN files # {}
    THEN IF Cardinality(DOMAIN files) = 1
            /\ ContainsFeature(Lower(CHOOSE n \in DOMAIN files : TRUE))
         THEN LET df == (files[CHOOSE n \in DOMAIN files : TRUE]).frame
                  ok == Msg("success", "Structured features file detected.", {})
              IN  IF MissingRequired(df)
                  THEN [ui |-> <<ok, Msg("error", "CSV missing required columns",
                                         required_cols \ ColSet(df))>>,
                        features |-> None, agg |-> 0, raised |-> ""]
                  ELSE [ui |-> <<ok>>, features |-> Some(df), agg |-> 0, raised |-> ""]
         ELSE LET logon_file == FilesDictGet(files, "logon.csv")
                  http_file == FilesDictGet(files, "http.csv")
                  device_file == FilesDictGet(files, "device.csv")
              IN  IF ~AllThree(logon_file, http_file, device_file)
                  THEN [ui |-> <<Msg("warning", "you must provide all three", {})>>,
                        features |-> None, agg |-> 0, raised |-> ""]
                  ELSE LET r == run_feature_engineering_from_files(logon_file, http_file, device_file)
                           ok == Msg("success", "Raw log files detected", {})
                       IN  IF r.ok
                           THEN [ui |-> <<ok>>, features |-> Some(r.df), agg |-> 1, raised |-> ""]
                           ELSE [ui |-> <<ok>>, features |-> None, agg |-> 1, raised |-> r.err]
    ELSE LET info == Msg("info", "using default features.csv", {})
         IN  IF csv.present
             THEN [ui |-> <<info>>, features |-> Some([csv.df EXCEPT !.indexName = ""]),
                   agg |-> 0, raised |-> ""]
             ELSE [ui |-> <<info>>, features |-> None, agg |-> 0, raised |-> "FileNotFoundError"]

\* lines 99-100: the columns anomaly and status are added to features
StatusOf(pred) == IF pred = 1 THEN "Normal" ELSE "Suspicious"
AddLabels(df, preds) ==
    [df EXCEPT !.cols = df.cols \o <<"anomaly", "status">>,
               !.rows = [u \in df.index |->
                   [c \in ColSet(df) \cup {"anomaly", "status"} |->
                       CASE c = "anomaly" -> preds[u]
                         [] c = "status" -> StatusOf(preds[u])
                         [] OTHER -> df.rows[u][c]]]]

Min2(a, b) == IF a <= b THEN a ELSE b
Max2(a, b) == IF a >= b THEN a ELSE b
ColMin(df, c) == CHOOSE m \in {df.rows[u][c] : u \in df.index} :
                    \A u \in df.index : m <= df.rows[u][c]
ColMax(df, c) == CHOOSE m \in {df.rows[u][c] : u \in df.index} :
                    \A u \in df.index : m >= df.rows[u][c]
\* st.slider(label, min, max, (min, max)): the range the user has set, taken
\* to lie within min..max
Slider(df, c, w) ==
    IF w.which = c
    THEN LET lo == Min2(ColMin(df, c) + w.cut[1], ColMax(df, c))
         IN  <<lo, Max2(lo, ColMax(df, c) - w.cut[2])>>
    ELSE <<ColMin(df, c), ColMax(df, c)>>

NoWidgets == [logon |-> <<0, 0>>, http |-> <<0, 0>>, device |-> <<0, 0>>, status |-> {}]
ReadWidgets(df, w) ==
    [logon |-> Slider(df, "logon_count", w), http |-> Slider(df, "http_count", w),
     device |-> Slider(df, "device_count", w), status |-> w.status]

\* lines 124-129: the boolean mask
Restrict(df, keep) == [df EXCEPT !.index = keep, !.rows = [u \in keep |-> df.rows[u]]]
Filter_nostatus(df, wd) ==
    Restrict(df, {u \in df.index :
        /\ df.rows[u]["logon_count"] >= wd.logon[1] /\ df.rows[u]["logon_count"] <= wd.logon[2]
        /\ df.rows[u]["http_count"] >= wd.http[1] /\ df.rows[u]["http_count"] <= wd.http[2]
        /\ df.rows[u]["device_count"] >= wd.device[1] /\ df.rows[u]["device_count"] <= wd.device[2]})
Filter(df, wd) ==
    Restrict(df, {u \in df.index :
        /\ df.rows[u]["logon_count"] >= wd.logon[1] /\ df.rows[u]["logon_count"] <= wd.logon[2]
        /\ df.rows[u]["http_count"] >= wd.http[1] /\ df.rows[u]["http_count"] <= wd.http[2]
        /\ df.rows[u]["device_count"] >= wd.device[1] /\ df.rows[u]["device_count"] <= wd.device[2]
        /\ df.rows[u]["status"] \in wd.status})

\* generate_pdf: the header row and the first 50 rows of the frame
PdfHeadRows == 50
NoPdf == [offered |-> FALSE, headers |-> <<>>, rows |-> 0]
generate_pdf(df) ==
    [offered |-> TRUE,
     headers |-> <<"User", "logon_count", "http_count", "device_count", "status">>,
     rows |-> Min2(PdfHeadRows, Cardinality(df.index))]

NoCalls == [agg |-> 0, load_model |-> 0, joblib |-> 0, predict |-> 0]
NoFiltered == [some |-> FALSE, df |-> NoFrame, shown |-> 0]

\* An exception that leaves main() ends the script run; the Streamlit script
\* runner shows it on the page and the server goes on. `features` keeps what
\* main() had assigned before the raising line: nothing when lines 88 or 94
\* raise, the frame without the columns anomaly and status when load_model or
\* predict raises. The detector load_model had returned stays the one at hand.
Raised(in, err, lm, nload, njob, npred) ==
    [outcome |-> "exception", ui |-> Append(in.ui, Msg("exception", err, {})),
     features |-> in.features,
     calls |-> [agg |-> in.agg, load_model |-> nload, joblib |-> njob, predict |-> npred],
     cache |-> lm.cache, returned |-> lm.returned,
     scoredBy |-> IF npred = 1 THEN lm.det ELSE NoArtifact,
     widgets |-> NoWidgets, filtered |-> NoFiltered, pdf |-> NoPdf]

\* lines 69-100 of one run of main() on the uploads `files`
ScoreMain(files, c, art, csv) ==
    LET in == ChooseFeatures(files, csv)
        idle == [ok |-> TRUE, err |-> "", det |-> NoArtifact, cache |-> c, joblib |-> 0, returned |-> 0]
    IN  IF in.raised # "" THEN Raised(in, in.raised, idle, 0, 0, 0)
        ELSE IF ~in.features.some
        THEN [outcome |-> IF in.ui[Len(in.ui)].level = "error" THEN "rejected" ELSE "warned",
              ui |-> in.ui, features |-> None,
              calls |-> [NoCalls EXCEPT !.agg = in.agg],
              cache |-> c, returned |-> 0, scoredBy |-> NoArtifact,
              widgets |-> NoWidgets, filtered |-> NoFiltered, pdf |-> NoPdf]
        ELSE LET lm == load_model(c, art)
             IN  IF ~lm.ok THEN Raised(in, lm.err, lm, 1, lm.joblib, 0)
                 ELSE LET p == Predict(lm.det, in.features.df)
                      IN  IF ~p.ok THEN Raised(in, p.err, lm, 1, lm.joblib, 1)
                          ELSE [outcome |-> "scored", ui |-> in.ui,
                                features |-> Some(AddLabels(in.features.df, p.preds)),
                                calls |-> [agg |-> in.agg, load_model |-> 1,
                                           joblib |-> lm.joblib, predict |-> 1],
                                cache |-> lm.cache, returned |-> lm.returned,
                                scoredBy |-> lm.det,
                                widgets |-> NoWidgets, filtered |-> NoFiltered, pdf |-> NoPdf]

\* lines 102-160 of the run, reached with the scored frame: the widgets are
\* read at the values `w`, the frame is filtered and the page is drawn
RenderMain(r, w) ==
    LET wd == ReadWidgets(r.features.df, w)
        flt == Filter(r.features.df, wd)
    IN  [r EXCEPT !.widgets = wd,
                  !.filtered = [some |-> TRUE, df |-> flt, shown |-> Cardinality(flt.index)],
                  !.pdf = IF flt.index # {} THEN generate_pdf(flt) ELSE NoPdf]

\* ----------------------------------------------------------------- actions
NoCsv == [present |-> FALSE, df |-> NoFrame]
WrittenCsv(r1) == [present |-> TRUE, df |-> fe_run_feature_engineering_from_files(r1[1], r1[2], r1[3]).df]

AggIdle ==
    /\ logon_in = NoFile /\ http_in = NoFile /\ device_in = NoFile
    /\ agg_pc = "off" /\ agg_out = [ok |-> FALSE, err |-> "", df |-> NoFrame]

Blank ==
    /\ uploaded_files = NoUpload /\ ui = <<>> /\ outcome = "none" /\ features = None
    /\ calls = NoCalls /\ scoredBy = NoArtifact /\ widgets = NoWidgets
    /\ filtered = NoFiltered /\ pdf = NoPdf

Init ==
    /\ artifact \in {NoArtifact, CorruptArtifact} \cup Detectors
    /\ featuresCsv \in {NoCsv} \cup {WrittenCsv(r1) : r1 \in R1Choices}
    /\ cache = NoCache
    /\ loads = 0
    /\ phase = "idle"
    /\ Blank
    /\ AggIdle

\* the script app_streamlit.py runs once, top to bottom
Shows(r) ==
    /\ ui' = r.ui
    /\ outcome' = r.outcome
    /\ features' = r.features
    /\ calls' = r.calls
    /\ cache' = r.cache
    /\ loads' = loads + r.returned
    /\ scoredBy' = r.scoredBy
    /\ widgets' = r.widgets
    /\ filtered' = r.filtered
    /\ pdf' = r.pdf
Main(files) ==
    /\ phase = "idle"
    /\ uploaded_files' = files
    /\ LET r == ScoreMain(files, cache, artifact, featuresCsv)
       IN  IF r.outcome = "scored"
           THEN \E w \in WidgetInputs : Shows(RenderMain(r, w))
           ELSE Shows(r)
    /\ phase' = "rendered"
    /\ UNCHANGED <<artifact, featuresCsv, aggVars>>

\* the user touches a widget or the uploader: Streamlit drops the page of the
\* last run and schedules the script again
Rerun ==
    /\ phase = "rendered"
    /\ phase' = "idle"
    /\ uploaded_files' = NoUpload /\ ui' = <<>> /\ outcome' = "none" /\ features' = None
    /\ calls' = NoCalls /\ scoredBy' = NoArtifact /\ widgets' = NoWidgets
    /\ filtered' = NoFiltered /\ pdf' = NoPdf
    /\ UNCHANGED <<artifact, featuresCsv, cache, loads, aggVars>>

\* feature_engineer.main(), a separate process run from the command line at
\* any time
FeatureEngineerMain(r1) ==
    /\ featuresCsv' = WrittenCsv(r1)
    /\ UNCHANGED <<artifact, cache, loads, phase, uploaded_files, ui, outcome, features,
                   calls, scoredBy, widgets, filtered, pdf, aggVars>>

\* train_model.main(), a separate process run from the command line at any
\* time: read_csv fails on a missing features.csv and fit fails on a frame
\* without rows, before the dump
TrainMain(det) ==
    /\ featuresCsv.present
    /\ featuresCsv.df.index # {}
    /\ det.cols = featuresCsv.df.cols
    /\ artifact' = det
    /\ UNCHANGED <<featuresCsv, cache, loads, phase, uploaded_files, ui, outcome, features,
                   calls, scoredBy, widgets, filtered, pdf, aggVars>>

ScriptRun == phase = "idle" /\ \E files \in Uploads : Main(files)
FeatureEngineerRun == \E r1 \in R1Choices : FeatureEngineerMain(r1)
TrainRun == \E det \in Detectors : TrainMain(det)

Next == ScriptRun \/ Rerun \/ FeatureEngineerRun \/ TrainRun

Spec == Init /\ [][Next]_vars

\* ------------------------------------- the aggregation as a pure function
\* The file arguments tried: an absent file, or a log of up to Max... events.
\* The http log may name any user, the logon log alice and bob, the device log
\* alice, so that a user is met in every combination of sources; any log may
\* hold events with an empty user field.
LogonFields == {"alice", "bob", ""}
DeviceFields == {"alice", ""}
LogonFiles == {NoFile} \cup {HeaderedFile(s) : s \in SeqsUpTo(LogonFields, MaxLogon)}
HttpFiles == {NoFile} \cup {HeaderlessFile(s) : s \in SeqsUpTo(Fields, MaxHttp)}
DeviceFiles == {NoFile} \cup {HeaderedFile(s) : s \in SeqsUpTo(DeviceFields, MaxDevice)}

InitAgg ==
    /\ artifact = NoArtifact /\ featuresCsv = NoCsv /\ cache = NoCache /\ loads = 0
    /\ phase = "off" /\ Blank
    /\ logon_in \in LogonFiles
    /\ http_in \in HttpFiles
    /\ device_in \in DeviceFiles
    /\ agg_pc = "input"
    /\ agg_out = [ok |-> FALSE, err |-> "", df |-> NoFrame]

AggregateApp ==
    /\ agg_pc = "input"
    /\ agg_out' = run_feature_engineering_from_files(logon_in, http_in, device_in)
    /\ agg_pc' = "app"
    /\ UNCHANGED <<dashVars, logon_in, http_in, device_in>>

AggregateFE ==
    /\ agg_pc = "input"
    /\ agg_out' = fe_run_feature_engineering_from_files(logon_in, http_in, device_in)
    /\ agg_pc' = "fe"
    /\ UNCHANGED <<dashVars, logon_in, http_in, device_in>>

NextAgg == AggregateApp \/ AggregateFE

SpecAgg == InitAgg /\ [][NextAgg]_vars

\* ================================================================ claims
\* the users a raw log names: the texts of its user field (field number pos of
\* a row) that are not a missing value, and how many rows name u
UsersIn(f, pos) == {f.rows[i][pos] : i \in 1..Len(f.rows)} \ NAValues
CountIn(f, pos, u) == Cardinality({i \in 1..Len(f.rows) : f.rows[i][pos] = u})
AggDone == agg_pc \in {"app", "fe"}
AllPresent == logon_in.present /\ http_in.present /\ device_in.present
HasZero(df, u, c) == c \in DOMAIN df.rows[u] /\ df.rows[u][c] = 0

\* C1: for three given logs the aggregated table has one row for every user of
\* at least one log and no other row, and a user that a log does not name has
\* the count 0 (a number, not a missing value) for that log.
C1_OneRowPerUser ==
    (AggDone /\ AllPresent) =>
        /\ agg_out.ok
        /\ agg_out.df.index = UsersIn(logon_in, 1) \cup UsersIn(http_in, 3) \cup UsersIn(device_in, 1)
        /\ \A u \in agg_out.df.index :
            /\ u \notin UsersIn(logon_in, 1) => HasZero(agg_out.df, u, "logon_count")
            /\ u \notin UsersIn(http_in, 3) => HasZero(agg_out.df, u, "http_count")
            /\ u \notin UsersIn(device_in, 1) => HasZero(agg_out.df, u, "device_count")
C1_Witness ==
    /\ agg_pc = "app" /\ AllPresent /\ agg_out.ok
    /\ agg_out.df.index = {"alice", "carol"}
    /\ "alice" \in UsersIn(logon_in, 1) /\ "alice" \notin UsersIn(device_in, 1)
    /\ "carol" \in UsersIn(http_in, 3) /\ "carol" \notin UsersIn(logon_in, 1)
    /\ agg_out.df.rows["alice"]["device_count"] = 0
    /\ agg_out.df.rows["carol"]["logon_count"] = 0

\* C2: every count of the aggregated table is the number of rows of its log
\* whose user field is that user (the third field of an http row), a
\* non-negative integer.
C2_CountsAreRowCounts ==
    (AggDone /\ AllPresent) =>
        /\ agg_out.ok
        /\ \A u \in agg_out.df.index :
            /\ agg_out.df.rows[u]["logon_count"] = CountIn(logon_in, 1, u)
            /\ agg_out.df.rows[u]["http_count"] = CountIn(http_in, 3, u)
            /\ agg_out.df.rows[u]["device_count"] = CountIn(device_in, 1, u)
            /\ \A c \in required_cols : agg_out.df.rows[u][c] \in Nat
\* the example: logon {alice, bob}, device {alice}, http {bob, bob, carol}
C2_Witness ==
    /\ AggDone /\ agg_out.ok
    /\ logon_in = HeaderedFile(<<"alice", "bob">>)
    /\ http_in = HeaderlessFile(<<"bob", "bob", "carol">>)
    /\ device_in = HeaderedFile(<<"alice">>)
    /\ agg_out.df.index = {"alice", "bob", "carol"}
    /\ agg_out.df.rows["alice"] = [logon_count |-> 1, http_count |-> 0, device_count |-> 1]
    /\ agg_out.df.rows["bob"] = [logon_count |-> 1, http_count |-> 2, device_count |-> 0]
    /\ agg_out.df.rows["carol"] = [logon_count |-> 0, http_count |-> 1, device_count |-> 0]

ZeroColumn(df, c) == c \in ColSet(df) /\ \A u \in df.index : HasZero(df, u, c)
OneAbsent ==
    Cardinality({f \in {<<"logon", logon_in.present>>, <<"http", http_in.present>>,
                         <<"device", device_in.present>>} : ~f[2]}) = 1
\* C3: with a source absent (its file argument None) the table still has that
\* source's count column, 0 in every row.
C3_AbsentSourceColumnIsZero ==
    (AggDone /\ OneAbsent) =>
        /\ ~logon_in.present => agg_out.ok /\ ZeroColumn(agg_out.df, "logon_count")
        /\ ~http_in.present => agg_out.ok /\ ZeroColumn(agg_out.df, "http_count")
        /\ ~device_in.present => agg_out.ok /\ ZeroColumn(agg_out.df, "device_count")

StripMissing(f, pos) == [f EXCEPT !.rows = SelectSeq(f.rows, LAMBDA r : r[pos] \notin NAValues)]
AggOf(pc, l, h, d) ==
    IF pc = "app" THEN run_feature_engineering_from_files(l, h, d)
    ELSE fe_run_feature_engineering_from_files(l, h, d)
\* C8: rows whose user field is missing are left out of the counts and do not
\* stop the aggregation: the result is the one of the same logs without those
\* rows, it has no row for the missing value, and the well-formed rows count.
C8_MissingUserRowsSkipped ==
    (AggDone /\ AllPresent) =>
        /\ agg_out.ok
        /\ agg_out.df.index \cap ({NaN} \cup NAValues) = {}
        /\ agg_out = AggOf(agg_pc, StripMissing(logon_in, 1), StripMissing(http_in, 3),
                           StripMissing(device_in, 1))
        /\ \A u \in UsersIn(http_in, 3) :
              u \in agg_out.df.index /\ agg_out.df.rows[u]["http_count"] = CountIn(http_in, 3, u)
        /\ \A u \in UsersIn(logon_in, 1) :
              u \in agg_out.df.index /\ agg_out.df.rows[u]["logon_count"] = CountIn(logon_in, 1, u)
        /\ \A u \in UsersIn(device_in, 1) :
              u \in agg_out.df.index /\ agg_out.df.rows[u]["device_count"] = CountIn(device_in, 1, u)
C8_Witness ==
    /\ agg_pc = "fe" /\ agg_out.ok
    /\ logon_in = HeaderedFile(<<"", "alice">>)
    /\ http_in = HeaderlessFile(<<"bob", "", "bob">>)
    /\ device_in = HeaderedFile(<<"">>)
    /\ agg_out.df.index = {"alice", "bob"}
    /\ agg_out.df.rows["bob"]["http_count"] = 2
    /\ agg_out.df.rows["alice"]["logon_count"] = 1

\* ------------------------------------------------------ dashboard claims
Rendered == phase = "rendered"
NamesOf(files) == DOMAIN files
\* the run took the structured-features path (one upload, 'feature' in its name)
FeaturePath ==
    /\ Cardinality(NamesOf(uploaded_files)) = 1
    /\ \A n \in NamesOf(uploaded_files) : ContainsFeature(Lower(n))
RawPath == NamesOf(uploaded_files) # {} /\ ~FeaturePath
UploadedFrame == (uploaded_files[CHOOSE n \in NamesOf(uploaded_files) : TRUE]).frame
ErrorsShown == {ui[i] : i \in {j \in 1..Len(ui) : ui[j].level = "error"}}
WarningsShown == {ui[i] : i \in {j \in 1..Len(ui) : ui[j].level = "warning"}}

\* C4: an uploaded feature table that lacks a required column is rejected with
\* an error naming exactly the missing required columns, whatever other columns
\* it has; the table is dropped and the model is neither loaded nor applied.
C4_MissingColumnsRejected ==
    (Rendered /\ FeaturePath /\ ~(required_cols \subseteq ColSet(UploadedFrame))) =>
        /\ outcome = "rejected"
        /\ \E m \in ErrorsShown : m.names = required_cols \ ColSet(UploadedFrame)
        /\ features = None
        /\ calls.load_model = 0 /\ calls.joblib = 0 /\ calls.predict = 0

\* a step that is one run of the script
IsRun == phase = "idle" /\ phase' = "rendered"
\* C5: in one process joblib.load returns a detector at most once and from then
\* on the stored detector never changes, whatever is run meanwhile; every
\* script run that scores predicts with the stored detector, a run that starts
\* with a stored detector does not read the artifact again, and no script run
\* writes the artifact.
C5_LoadedOnceAndReused ==
    [][ /\ loads' <= 1
        /\ cache.hit => (cache' = cache /\ loads' = loads)
        /\ IsRun => /\ artifact' = artifact
                    /\ cache.hit => calls'.joblib = 0
                    /\ outcome' = "scored" => (cache'.hit /\ scoredBy' = cache'.det) ]_vars
\* a run scored from the store while the artifact on disk is another detector
C5_Witness ==
    /\ Rendered /\ outcome = "scored" /\ loads = 1
    /\ calls.load_model = 1 /\ calls.joblib = 0
    /\ cache.hit /\ scoredBy = cache.det
    /\ artifact.kind = "model" /\ artifact # cache.det

FullRange ==
    /\ widgets.logon = <<ColMin(features.df, "logon_count"), ColMax(features.df, "logon_count")>>
    /\ widgets.http = <<ColMin(features.df, "http_count"), ColMax(features.df, "http_count")>>
    /\ widgets.device = <<ColMin(features.df, "device_count"), ColMax(features.df, "device_count")>>
SuspiciousRows == {u \in features.df.index : features.df.rows[u]["status"] = "Suspicious"}
\* C6: with only "Suspicious" selected and the sliders at their full range the
\* filtered frame holds exactly the rows labelled Suspicious, and the count in
\* the heading is the number of such rows.
C6_SuspiciousFilter ==
    (Rendered /\ outcome = "scored" /\ widgets.status = {"Suspicious"} /\ FullRange) =>
        /\ filtered.some
        /\ filtered.df.index = SuspiciousRows
        /\ \A u \in filtered.df.index : filtered.df.rows[u] = features.df.rows[u]
        /\ filtered.shown = Cardinality(SuspiciousRows)
C6_Witness ==
    /\ Rendered /\ outcome = "scored" /\ widgets.status = {"Suspicious"} /\ FullRange
    /\ SuspiciousRows # {} /\ SuspiciousRows # features.df.index
    /\ filtered.shown = 1 /\ filtered.df.index = SuspiciousRows

\* the run that drew the page called load_model and had a detector from it:
\* the store changes in script runs only, and holds a detector after a run
\* that called load_model exactly if load_model returned one
DetectorAtHand == calls.load_model = 1 /\ cache.hit
\* C7: a feature table with the three count columns is scored on these three
\* columns alone (the label of a row depends on its three counts only) and its
\* other columns are still in the scored output.
C7_OtherColumnsIgnoredAndKept ==
    (Rendered /\ FeaturePath /\ required_cols \subseteq ColSet(UploadedFrame)
       /\ UploadedFrame.index # {} /\ DetectorAtHand) =>
        /\ outcome = "scored"
        /\ features.some
        /\ ColSet(UploadedFrame) \subseteq ColSet(features.df)
        /\ \A u \in UploadedFrame.index :
              features.df.rows[u]["status"] = StatusOf(PredictRow(scoredBy, UploadedFrame.rows[u]))

LowerNames == {Lower(n) : n \in NamesOf(uploaded_files)}
\* C9: on the raw-log path the aggregation runs only if logon.csv, http.csv and
\* device.csv are all among the uploads; otherwise a warning is shown and the
\* run aggregates nothing, scores nothing, filters nothing and offers no PDF.
C9_RawPathNeedsAllThree ==
    (Rendered /\ RawPath) =>
        /\ calls.agg = 1 <=> {"logon.csv", "http.csv", "device.csv"} \subseteq LowerNames
        /\ ~({"logon.csv", "http.csv", "device.csv"} \subseteq LowerNames) =>
              /\ outcome = "warned" /\ WarningsShown # {}
              /\ features = None
              /\ calls = NoCalls
              /\ ~filtered.some /\ ~pdf.offered
C9_Witness ==
    /\ Rendered /\ outcome = "warned" /\ WarningsShown # {}
    /\ NamesOf(uploaded_files) = {"logon.csv", "HTTP.csv", "notes.csv"}
    /\ calls = NoCalls /\ features = None

\* the frame holds a label column
Labelled(f) == f.some /\ {"anomaly", "status"} \cap ColSet(f.df) # {}
\* C10: a script run that reaches scoring while the artifact is missing or
\* corrupt and no detector is stored yields no labels (no fallback): it calls
\* load_model once, which reads the artifact once and raises, predict is not
\* called, the failure is the last message on the page, nothing is filtered or
\* offered as PDF, the store is left as it was, and the process can run the
\* script again.
C10_ModelUnavailable ==
    [][ (/\ IsRun
         /\ ChooseFeatures(uploaded_files', featuresCsv).features.some
         /\ artifact.kind # "model" /\ ~cache.hit) =>
            /\ outcome' = "exception"
            /\ ui'[Len(ui')].level = "exception"
            /\ ui'[Len(ui')].text \in {"FileNotFoundError", "UnpicklingError"}
            /\ ~Labelled(features') /\ scoredBy' = NoArtifact
            /\ ~filtered'.some /\ ~pdf'.offered
            /\ calls'.load_model = 1 /\ calls'.joblib = 1 /\ calls'.predict = 0
            /\ cache' = cache /\ loads' = loads
            /\ (ENABLED Rerun)' ]_vars
\* the page of a run on three raw logs that failed on a corrupt artifact: the
\* aggregated frame is there, without labels
C10_Witness ==
    /\ Rendered /\ artifact.kind = "corrupt" /\ ~cache.hit
    /\ outcome = "exception" /\ ui[Len(ui)].text = "UnpicklingError"
    /\ NamesOf(uploaded_files) = {"logon.csv", "HTTP.csv", "device.csv"}
    /\ calls.agg = 1 /\ calls.load_model = 1 /\ calls.joblib = 1 /\ calls.predict = 0
    /\ features.some /\ features.df.index # {} /\ ~Labelled(features)

====
